---- MODULE Spec2Model ----
(***************************************************************************)
(* Model of the lobste.rs feed filter worker (src/src/index.js): the score *)
(* fetcher with its throttle/parse-error retry, the aggregation pipeline   *)
(* and the cache policy of the request handler, the scheduled handler and  *)
(* the clear endpoint, run as cooperatively scheduled tasks over one       *)
(* shared key-value store.                                                 *)
(***************************************************************************)
EXTENDS Integers, Sequences, FiniteSets, TLC

(* ---------------------------------------------------------------- CONFIG *)
minimumScore == 10
cacheMaxAge == 1800
rateLimitDelay == 200
maxRetries == 3
retryDelay == 1000

(* ---------------------------------------------------------------- bounds *)
\* seconds that pass in one Tick of the store's clock
TickSeconds == 900
\* the tasks the runtime may have in flight at once
Tasks == {"t1", "t2"}

(* --------------------------------------------------------- score values  *)
\* a JavaScript number as fetchArticleScore returns it: an integer or NaN
Num(n) == [nan |-> FALSE, v |-> n]
NaN == [nan |-> TRUE, v |-> 0]
IsInteger(x) == ~x.nan

\* the JSON values a body's score field is drawn from
JsonInt(n) == [t |-> "int", n |-> n]
\* n + 1/2, a number with a fractional part
JsonFrac(n) == [t |-> "frac", n |-> n]
\* a string of digits, "n"
JsonDigits(n) == [t |-> "digits", n |-> n]
\* a string that does not start with a number
JsonText == [t |-> "text", n |-> 0]
\* the body has no score field: destructuring yields undefined
JsonUndefined == [t |-> "undefined", n |-> 0]

ScoreInts == {0, 5, 10, 15}
JsonScores ==
    {JsonInt(n) : n \in ScoreInts \cup {-3}} \cup {JsonFrac(15), JsonDigits(15), JsonText, JsonUndefined}

\* parseInt(score, 10)
ParseInt(s) ==
    CASE s.t = "int" -> Num(s.n)
      [] s.t = "frac" -> Num(s.n)
      [] s.t = "digits" -> Num(s.n)
      [] OTHER -> NaN

(* ------------------------------------------------- score endpoint answers *)
\* fetch() or response.text() rejects
NetworkError == [kind |-> "neterr", token |-> FALSE, score |-> JsonUndefined]
\* the body holds 'Throttled' or 'Rate limit'
ThrottledBody == [kind |-> "throttled", token |-> FALSE, score |-> JsonUndefined]
\* the body is not JSON; token: the SyntaxError's message holds 'Unexpected token'
BadJson(token) == [kind |-> "badjson", token |-> token, score |-> JsonUndefined]
\* the body is the JSON value null: destructuring it throws a TypeError
JsonNull == [kind |-> "jsonnull", token |-> FALSE, score |-> JsonUndefined]
\* the body is a JSON object whose score field is s
JsonBody(s) == [kind |-> "json", token |-> FALSE, score |-> s]

Outcomes ==
    {NetworkError, ThrottledBody, BadJson(TRUE), BadJson(FALSE), JsonNull}
        \cup {JsonBody(s) : s \in JsonScores}

IsThrottledResponse(o) == o.kind = "throttled"

IsAnyError(o) == o.kind \in {"neterr", "badjson", "jsonnull"}
\* error.message.includes('Unexpected token') in the catch block
IsUnexpectedToken(o) == o.kind = "badjson" /\ o.token

ThrowsOnParse(o) == o.kind \in {"badjson", "jsonnull"}
\* the try block throws on this answer
Throws(o) == o.kind \in {"neterr", "badjson", "jsonnull"}

CanRetryOneLess(retryCount) == retryCount < maxRetries - 1
CanRetryOneMore(retryCount) == retryCount <= maxRetries
CanRetry(retryCount) == retryCount < maxRetries

RECURSIVE Pow2(_)
Pow2(n) == IF n = 0 THEN 1 ELSE 2 * Pow2(n - 1)

BackoffFlat(retryCount) == retryDelay
Backoff(retryCount) == retryDelay * Pow2(retryCount)

\* one pass through fetchArticleScore's body on answer o: retry after a sleep, or return
ScoreOutcome(retryCount, o) ==
    IF IsThrottledResponse(o)
    THEN IF CanRetry(retryCount)
         THEN [retry |-> TRUE, delay |-> Backoff(retryCount), value |-> Num(0)]
         ELSE [retry |-> FALSE, delay |-> 0, value |-> Num(0)]
    ELSE IF Throws(o)
    THEN IF CanRetry(retryCount) /\ IsUnexpectedToken(o)
         THEN [retry |-> TRUE, delay |-> Backoff(retryCount), value |-> Num(0)]
         ELSE [retry |-> FALSE, delay |-> 0, value |-> Num(0)]
    ELSE [retry |-> FALSE, delay |-> 0, value |-> ParseInt(o.score)]

(* ------------------------------------------------------------- documents *)
\* a feed item as parseArticleFromXml and new Date(published).getTime() read it
\* (a Num, or NaN for a pubDate that Date cannot parse)
A0 == [guid |-> "g0", comments |-> "", timestamp |-> Num(3)]
A1 == [guid |-> "g1", comments |-> "c1", timestamp |-> Num(2)]
A2 == [guid |-> "g2", comments |-> "c2", timestamp |-> Num(1)]
A3 == [guid |-> "g3", comments |-> "c3", timestamp |-> Num(1)]
A4 == [guid |-> "g4", comments |-> "c4", timestamp |-> NaN]

\* the upstream feed a request or a scheduled run is answered with: one item without
\* comments and one with
RequestFeeds == {<<A0, A1>>}

AllItems(items) == items
\* items.map(parseArticleFromXml).filter((article) => article.comments)
RECURSIVE WithComments(_)
WithComments(items) ==
    IF items = <<>> THEN <<>>
    ELSE IF Head(items).comments # ""
         THEN <<Head(items)>> \o WithComments(Tail(items))
         ELSE WithComments(Tail(items))

\* what fetchAllArticles' catch block returns
CaughtPartial == <<[guid |-> "g1", comments |-> "c1", timestamp |-> Num(2), score |-> Num(15)]>>
CaughtArticles == <<>>

\* if (i < parsedArticles.length - 1) await this.sleep(rateLimitDelay)
SleepsAfterEvery(i, n) == i < n
SleepsAfter(i, n) == i < n - 1

\* where a run goes once its document is rendered: a handler puts it, a bare run returns it
AfterPipeline(k) == IF k = "pipeline" THEN "rendered" ELSE "put"

Scored(article, score) ==
    [guid |-> article.guid, comments |-> article.comments,
     timestamp |-> article.timestamp, score |-> score]

\* article.score > this.config.minimumScore (NaN compares false)
MeetsMinimum(a) == ~a.score.nan /\ a.score.v > minimumScore

RECURSIVE FilterScore(_)
FilterScore(articles) ==
    IF articles = <<>> THEN <<>>
    ELSE IF MeetsMinimum(Head(articles))
         THEN <<Head(articles)>> \o FilterScore(Tail(articles))
         ELSE FilterScore(Tail(articles))

\* (a, b) => b.timestamp - a.timestamp as sort reads it: its sign, a NaN result read as 0
Compare(a, b) ==
    IF a.timestamp.nan \/ b.timestamp.nan THEN 0
    ELSE IF b.timestamp.v < a.timestamp.v THEN -1
    ELSE IF b.timestamp.v > a.timestamp.v THEN 1
    ELSE 0

\* the comparator is consistent over the list: comparing equal is transitive there
Consistent(articles) ==
    \A i, j, k \in 1..Len(articles) :
        (Compare(articles[i], articles[j]) = 0 /\ Compare(articles[j], articles[k]) = 0)
            => Compare(articles[i], articles[k]) = 0

\* insert a behind every element that does not sort after it: a stable sort
RECURSIVE InsertByTimestamp(_, _)
InsertByTimestamp(a, sorted) ==
    IF sorted = <<>> THEN <<a>>
    ELSE IF Compare(a, Head(sorted)) < 0
         THEN <<a>> \o sorted
         ELSE <<Head(sorted)>> \o InsertByTimestamp(a, Tail(sorted))

\* .sort((a, b) => b.timestamp - a.timestamp)
RECURSIVE SortByTimestamp(_)
SortByTimestamp(articles) ==
    IF articles = <<>> THEN <<>>
    ELSE InsertByTimestamp(articles[Len(articles)],
                           SortByTimestamp(SubSeq(articles, 1, Len(articles) - 1)))

\* every order of the list
Orders(articles) ==
    LET n == Len(articles)
    IN { [i \in 1..n |-> articles[p[i]]] :
           p \in { q \in [1..n -> 1..n] : \A i, j \in 1..n : q[i] = q[j] => i = j } }

\* what .sort(comparator) may leave: the stable order under a consistent comparator, an
\* order of the engine's choice under an inconsistent one
SortResults(articles) ==
    IF Consistent(articles) THEN {SortByTimestamp(articles)} ELSE Orders(articles)

\* the serialized documents writeArticlesFeed may return: the fixed prolog and channel
\* around the emitted items
WriteArticlesFeed(articles) == { [items |-> r] : r \in SortResults(FilterScore(articles)) }

(* ----------------------------------------------------------------- store *)
\* RSS_CACHE holds no entry under cacheKey, or one entry
NoEntry == <<>>
Null == <<>>

Expired(entry) == entry.age >= entry.ttl

\* env.RSS_CACHE.get(cacheKey): the body of a live entry, else null
KVGet(s) == IF s = NoEntry \/ Expired(s[1]) THEN Null ELSE <<s[1].body>>

KVPutIfAbsent(s, body, ttl) == IF s = NoEntry THEN <<[body |-> body, ttl |-> ttl, age |-> 0]>> ELSE s
\* env.RSS_CACHE.put(cacheKey, body, { expirationTtl: ttl })
KVPut(s, body, ttl) == <<[body |-> body, ttl |-> ttl, age |-> 0]>>

KVDeleteNothing(s) == s
\* env.RSS_CACHE.delete(cacheKey)
KVDelete(s) == NoEntry

EntryState(s) ==
    IF s = NoEntry THEN "absent" ELSE IF Expired(s[1]) THEN "expired" ELSE "live"

(* ------------------------------------------------------------- responses *)
NoResp == [status |-> 0, xcache |-> "", body |-> <<>>, raised |-> FALSE,
     location |-> <<>>]
RssResponse(body, xcache) ==
    [status |-> 200, xcache |-> xcache, body |-> <<body>>, raised |-> FALSE,
     location |-> <<>>]
ErrorResponse == [status |-> 500, xcache |-> "", body |-> <<>>, raised |-> FALSE,
     location |-> <<>>]
ClearedResponse == [status |-> 200, xcache |-> "", body |-> <<>>, raised |-> FALSE,
     location |-> <<>>]
\* new URL(request.url): the protocol and host of the request
Origins ==
    { [protocol |-> "http:", host |-> "example.com"],
      [protocol |-> "https:", host |-> "feed.example:8443"] }
NoOrigin == [protocol |-> "", host |-> ""]

RedirectToIndex(origin) == <<origin.protocol, "//", origin.host, "/index.xml">>
\* `${url.protocol}//${url.host}/`, the pieces of the string in order
RedirectLocation(origin) == <<origin.protocol, "//", origin.host, "/">>

RedirectResponse(origin) ==
    [status |-> 302, xcache |-> "", body |-> <<>>, raised |-> FALSE,
     location |-> RedirectLocation(origin)]
\* the handler's promise rejects: the exception leaves the handler
Unhandled == [status |-> 0, xcache |-> "", body |-> <<>>, raised |-> TRUE,
     location |-> <<>>]

Paths == {"/", "/clear-cache", "/index.xml"}
\* url.protocol and url.host are read on /index.xml only: elsewhere one origin stands for all
OriginsRead(path) == IF path = "/index.xml" THEN Origins ELSE {NoOrigin}
Queries == {"", "force_refresh", "clear_cache"}

ForceRefreshOnly(query) == query = "force_refresh"
\* url.searchParams.has('force_refresh') || url.searchParams.has('clear_cache')
ForceRefresh(query) == query \in {"force_refresh", "clear_cache"}

NeverHit(cachedFeed) == FALSE
\* if (cachedFeed)
Hit(cachedFeed) == cachedFeed # Null

(* ----------------------------------------------------------------- state *)
VARIABLES
    store,       \* the entry under cacheKey: NoEntry or <<[body, ttl, age]>>
    pc,          \* per task: the await it is suspended at
    kind,        \* per task: "fetch", "scheduled" or "score" (a bare fetchArticleScore call)
    req,         \* per task: the request's path and query flag
    parsed,      \* per task: parsedArticles
    scored,      \* per task: articlesWithScores
    retryCount,  \* per task: the running fetchArticleScore call's retryCount
    call,        \* per task: what the running fetchArticleScore call has done so far
    ret,         \* per task: the value the last fetchArticleScore call returned
    doc,         \* per task: rssFeed
    resp,        \* per task: the handler's response
    warmed,      \* per task: warmCache's return value, "" until it returns
    ops,         \* per task: what the handler has done so far
    ref,         \* the first miss completed since the last clear, scheduled run or bypass
    cleared      \* successful clears since the last put, counted up to 2

vars ==
    <<store, pc, kind, req, parsed, scored, retryCount, call, ret, doc, resp, warmed, ops,
      ref, cleared>>

NoReq == [path |-> "", query |-> "", afterRef |-> FALSE, origin |-> NoOrigin]
NoCall == [hist |-> <<>>, fetches |-> 0, slept |-> 0]
NoDoc == <<>>
NoOps ==
    [reads |-> 0, found |-> "", seen |-> Null, readCleared |-> 0, writes |-> 0, wrote |-> NoEntry,
     over |-> "", dels |-> 0, runs |-> 0, feedFail |-> FALSE, storeFail |-> FALSE,
     rateSleeps |-> 0, items |-> <<>>, log |-> <<>>]
NoRef == <<>>

\* entries of ops.log: a fetchArticleScore call starts, it returns after a last answer,
\* the loop sleeps rateLimitDelay
CallEvent(article) == [e |-> "call", guid |-> article.guid, last |-> ""]
RetEvent(article, o) == [e |-> "ret", guid |-> article.guid, last |-> o.kind]
SleepEvent == [e |-> "sleep", guid |-> "", last |-> ""]

Idle(t) ==
    /\ pc[t] = "idle"

InitTasks ==
    /\ pc = [t \in Tasks |-> "idle"]
    /\ kind = [t \in Tasks |-> ""]
    /\ req = [t \in Tasks |-> NoReq]
    /\ parsed = [t \in Tasks |-> <<>>]
    /\ scored = [t \in Tasks |-> <<>>]
    /\ retryCount = [t \in Tasks |-> 0]
    /\ call = [t \in Tasks |-> NoCall]
    /\ ret = [t \in Tasks |-> Num(0)]
    /\ doc = [t \in Tasks |-> NoDoc]
    /\ resp = [t \in Tasks |-> NoResp]
    /\ warmed = [t \in Tasks |-> ""]
    /\ ops = [t \in Tasks |-> NoOps]

Init ==
    /\ store = NoEntry
    /\ InitTasks
    /\ ref = NoRef
    /\ cleared = 0

\* a clear, a scheduled run or a bypass request acts: no miss is followed across it
Forget(r) == [t \in Tasks |-> [r[t] EXCEPT !.afterRef = FALSE]]

NewRef(body) == <<[body |-> body, age |-> 0, disturbed |-> FALSE]>>

\* the answers the score endpoint gives while requests and scheduled runs are followed
RequestOutcomes ==
    {ThrottledBody, JsonBody(JsonInt(15))}

(* --------------------------------------------------------------- actions *)
\* fetch(request, env, ctx) up to its first await
Request(t, path, query, origin) ==
    /\ Idle(t)
    /\ kind' = [kind EXCEPT ![t] = "fetch"]
    /\ LET bypass == ForceRefresh(query)
           disturbs == path = "/clear-cache" \/ (path = "/" /\ bypass)
           follows == path = "/" /\ ~bypass /\ ref # NoRef
           r == [path |-> path, query |-> query, afterRef |-> follows, origin |-> origin]
       IN /\ req' = IF disturbs THEN Forget([req EXCEPT ![t] = r])
                                ELSE [req EXCEPT ![t] = r]
          /\ ref' = IF disturbs THEN NoRef ELSE ref
          /\ IF path = "/clear-cache"
             THEN /\ pc' = [pc EXCEPT ![t] = "delete"]
                  /\ UNCHANGED <<resp, ops>>
             ELSE IF path = "/index.xml"
             THEN /\ pc' = [pc EXCEPT ![t] = "done"]
                  /\ resp' = [resp EXCEPT ![t] = RedirectResponse(origin)]
                  /\ UNCHANGED ops
             ELSE IF ~bypass
             THEN /\ pc' = [pc EXCEPT ![t] = "get"]
                  /\ UNCHANGED <<resp, ops>>
             ELSE /\ pc' = [pc EXCEPT ![t] = "feed"]
                  /\ ops' = [ops EXCEPT ![t].runs = @ + 1]
                  /\ UNCHANGED resp
    /\ UNCHANGED <<store, parsed, scored, retryCount, call, ret, doc, warmed, cleared>>

\* await env.RSS_CACHE.delete(CONFIG.cacheKey), outside the handler's try block
Delete(t, ok) ==
    /\ pc[t] = "delete"
    /\ pc' = [pc EXCEPT ![t] = "done"]
    /\ ops' = [ops EXCEPT ![t].dels = @ + 1,
                          ![t].over = EntryState(store),
                          ![t].storeFail = ~ok]
    /\ IF ok
       THEN /\ store' = KVDelete(store)
            /\ resp' = [resp EXCEPT ![t] = ClearedResponse]
            /\ cleared' = IF cleared < 2 THEN cleared + 1 ELSE cleared
       ELSE /\ resp' = [resp EXCEPT ![t] = Unhandled]
            /\ UNCHANGED <<store, cleared>>
    /\ ref' = NoRef
    /\ req' = Forget(req)
    /\ UNCHANGED <<kind, parsed, scored, retryCount, call, ret, doc, warmed>>

\* await env.RSS_CACHE.get(CONFIG.cacheKey) and the hit test
Get(t, ok) ==
    /\ pc[t] = "get"
    /\ IF ~ok
       THEN /\ pc' = [pc EXCEPT ![t] = "done"]
            /\ resp' = [resp EXCEPT ![t] = ErrorResponse]
            /\ ops' = [ops EXCEPT ![t].reads = @ + 1, ![t].storeFail = TRUE]
       ELSE LET cachedFeed == KVGet(store)
            IN IF Hit(cachedFeed)
               THEN /\ pc' = [pc EXCEPT ![t] = "done"]
                    /\ resp' = [resp EXCEPT ![t] = RssResponse(cachedFeed[1], "HIT")]
                    /\ ops' = [ops EXCEPT ![t].reads = @ + 1,
                                          ![t].found = EntryState(store),
                                          ![t].seen = cachedFeed,
                                          ![t].readCleared = cleared]
               ELSE /\ pc' = [pc EXCEPT ![t] = "feed"]
                    /\ ops' = [ops EXCEPT ![t].reads = @ + 1,
                                          ![t].found = EntryState(store),
                                          ![t].seen = cachedFeed,
                                          ![t].readCleared = cleared,
                                          ![t].runs = @ + 1]
                    /\ UNCHANGED resp
    /\ UNCHANGED <<store, kind, req, parsed, scored, retryCount, call, ret, doc, warmed,
                   ref, cleared>>

\* scheduled(event, env, ctx): warmCache up to its first await
Scheduled(t) ==
    /\ Idle(t)
    /\ kind' = [kind EXCEPT ![t] = "scheduled"]
    /\ pc' = [pc EXCEPT ![t] = "feed"]
    /\ ops' = [ops EXCEPT ![t].runs = @ + 1]
    /\ ref' = NoRef
    /\ req' = Forget(req)
    /\ UNCHANGED <<store, parsed, scored, retryCount, call, ret, doc, resp, warmed, cleared>>

\* fetchAllArticles: the feed GET fails, and the catch block returns []
FeedFail(t) ==
    /\ pc[t] = "feed"
    /\ pc' = [pc EXCEPT ![t] = AfterPipeline(kind[t])]
    /\ scored' = [scored EXCEPT ![t] = CaughtArticles]
    /\ \E d \in WriteArticlesFeed(CaughtArticles) : doc' = [doc EXCEPT ![t] = <<d>>]
    /\ ops' = [ops EXCEPT ![t].feedFail = TRUE]
    /\ UNCHANGED <<store, kind, req, parsed, retryCount, call, ret, resp, warmed,
                   ref, cleared>>

\* fetchAllArticles: the feed GET answers with items; parse them and keep the commented
FeedRespond(t, items) ==
    /\ pc[t] = "feed"
    /\ LET parsedArticles == WithComments(items)
       IN IF parsedArticles = <<>>
          THEN /\ pc' = [pc EXCEPT ![t] = AfterPipeline(kind[t])]
               /\ \E d \in WriteArticlesFeed(<<>>) : doc' = [doc EXCEPT ![t] = <<d>>]
               /\ ops' = [ops EXCEPT ![t].items = items]
               /\ UNCHANGED parsed
          ELSE /\ pc' = [pc EXCEPT ![t] = "score"]
               /\ parsed' = [parsed EXCEPT ![t] = parsedArticles]
               /\ ops' = [ops EXCEPT ![t].items = items,
                                     ![t].log = <<CallEvent(parsedArticles[1])>>]
               /\ UNCHANGED doc
    /\ UNCHANGED <<store, kind, req, scored, retryCount, call, ret, resp, warmed,
                   ref, cleared>>

\* fetchArticleScore: the score GET is answered by o
ScoreRespond(t, o) ==
    /\ pc[t] = "score"
    /\ LET r == ScoreOutcome(retryCount[t], o)
       IN /\ call' = [call EXCEPT ![t] = [hist |-> Append(@.hist, o),
                                          fetches |-> @.fetches + 1,
                                          slept |-> @.slept + r.delay]]
          /\ IF r.retry
             THEN /\ retryCount' = [retryCount EXCEPT ![t] = @ + 1]
                  /\ UNCHANGED <<pc, ret>>
             ELSE /\ pc' = [pc EXCEPT ![t] = "scoreRet"]
                  /\ ret' = [ret EXCEPT ![t] = r.value]
                  /\ UNCHANGED retryCount
    /\ UNCHANGED <<store, kind, req, parsed, scored, doc, resp, warmed, ops, ref, cleared>>

\* fetchAllArticles: the loop body after await fetchArticleScore, to the next await
ScoreReturn(t) ==
    /\ pc[t] = "scoreRet"
    /\ kind[t] # "score"
    /\ LET i == Len(scored[t])
           n == Len(parsed[t])
           article == parsed[t][i + 1]
           articlesWithScores == Append(scored[t], Scored(article, ret[t]))
           sleeps == SleepsAfter(i, n)
           more == i + 1 < n
           events == <<RetEvent(article, call[t].hist[Len(call[t].hist)])>>
                        \o (IF sleeps THEN <<SleepEvent>> ELSE <<>>)
                        \o (IF more THEN <<CallEvent(parsed[t][i + 2])>> ELSE <<>>)
       IN /\ ops' = [ops EXCEPT ![t].rateSleeps = IF sleeps THEN @ + 1 ELSE @,
                                ![t].log = @ \o events]
          /\ IF more
             THEN /\ pc' = [pc EXCEPT ![t] = "score"]
                  /\ scored' = [scored EXCEPT ![t] = articlesWithScores]
                  /\ UNCHANGED <<doc, parsed>>
             ELSE /\ pc' = [pc EXCEPT ![t] = AfterPipeline(kind[t])]
                  /\ \E d \in WriteArticlesFeed(articlesWithScores) :
                        doc' = [doc EXCEPT ![t] = <<d>>]
                  \* a handler hands the list to writeArticlesFeed and drops it
                  /\ scored' = [scored EXCEPT ![t] = IF kind[t] = "pipeline"
                                                     THEN articlesWithScores ELSE <<>>]
                  /\ parsed' = [parsed EXCEPT ![t] = IF kind[t] = "pipeline"
                                                     THEN parsed[t] ELSE <<>>]
    /\ retryCount' = [retryCount EXCEPT ![t] = 0]
    /\ call' = [call EXCEPT ![t] = NoCall]
    /\ ret' = [ret EXCEPT ![t] = Num(0)]
    /\ UNCHANGED <<store, kind, req, resp, warmed, ref, cleared>>

\* await env.RSS_CACHE.put(cacheKey, rssFeed, { expirationTtl: cacheMaxAge }) and the return
Put(t, ok) ==
    /\ pc[t] = "put"
    /\ pc' = [pc EXCEPT ![t] = "done"]
    /\ LET rssFeed == doc[t][1]
           after == IF ok THEN KVPut(store, rssFeed, cacheMaxAge) ELSE store
           bypass == kind[t] = "fetch" /\ ForceRefresh(req[t].query)
           disturbs == kind[t] = "scheduled" \/ bypass
       IN /\ store' = after
          /\ ops' = [ops EXCEPT ![t].writes = @ + 1,
                                ![t].over = EntryState(store),
                                ![t].wrote = IF ok THEN after ELSE NoEntry,
                                ![t].storeFail = ~ok]
          /\ cleared' = IF ok THEN 0 ELSE cleared
          /\ IF kind[t] = "fetch"
             THEN /\ resp' = [resp EXCEPT ![t] = IF ok THEN RssResponse(rssFeed, "MISS")
                                                       ELSE ErrorResponse]
                  /\ UNCHANGED warmed
             ELSE /\ warmed' = [warmed EXCEPT ![t] = IF ok THEN "true" ELSE "false"]
                  /\ UNCHANGED resp
          /\ ref' = IF disturbs THEN NoRef
                    ELSE IF ~ok \/ req[t].afterRef THEN ref
                    ELSE IF ref = NoRef THEN NewRef(rssFeed)
                    ELSE <<[ref[1] EXCEPT !.disturbed = TRUE]>>
          /\ req' = IF disturbs THEN Forget(req) ELSE req
    /\ UNCHANGED <<kind, parsed, scored, retryCount, call, ret, doc>>

\* the response is delivered and the task ends
Finish(t) ==
    /\ pc[t] = "done"
    /\ pc' = [pc EXCEPT ![t] = "idle"]
    /\ kind' = [kind EXCEPT ![t] = ""]
    /\ req' = [req EXCEPT ![t] = NoReq]
    /\ parsed' = [parsed EXCEPT ![t] = <<>>]
    /\ scored' = [scored EXCEPT ![t] = <<>>]
    /\ doc' = [doc EXCEPT ![t] = NoDoc]
    /\ resp' = [resp EXCEPT ![t] = NoResp]
    /\ warmed' = [warmed EXCEPT ![t] = ""]
    /\ ops' = [ops EXCEPT ![t] = NoOps]
    /\ UNCHANGED <<store, retryCount, call, ret, ref, cleared>>

\* TickSeconds pass: the stored entry ages toward its expirationTtl
Tick ==
    /\ store # NoEntry \/ ref # NoRef
    /\ store # NoEntry => ~Expired(store[1])
    /\ store' = IF store = NoEntry THEN store
                ELSE LET e == store[1]
                         a == e.age + TickSeconds
                     IN <<[e EXCEPT !.age = IF a >= e.ttl THEN e.ttl ELSE a]>>
    /\ LET lapsed == ref # NoRef /\ ref[1].age + TickSeconds >= cacheMaxAge
       IN /\ ref' = IF ref = NoRef \/ lapsed THEN NoRef
                    ELSE <<[ref[1] EXCEPT !.age = @ + TickSeconds]>>
          /\ req' = IF lapsed THEN Forget(req) ELSE req
    /\ UNCHANGED <<pc, kind, parsed, scored, retryCount, call, ret, doc, resp, warmed, ops,
                   cleared>>

Next ==
    \/ \E t \in Tasks, path \in Paths, query \in Queries :
          \E origin \in OriginsRead(path) : Request(t, path, query, origin)
    \/ \E t \in Tasks : Scheduled(t)
    \/ \E t \in Tasks, ok \in BOOLEAN : Delete(t, ok)
    \/ \E t \in Tasks, ok \in BOOLEAN : Get(t, ok)
    \/ \E t \in Tasks : FeedFail(t)
    \/ \E t \in Tasks, items \in RequestFeeds : FeedRespond(t, items)
    \/ \E t \in Tasks, o \in RequestOutcomes : ScoreRespond(t, o)
    \/ \E t \in Tasks : ScoreReturn(t)
    \/ \E t \in Tasks, ok \in BOOLEAN : Put(t, ok)
    \/ \E t \in Tasks : Finish(t)
    \/ Tick

Spec == Init /\ [][Next]_vars

(* ------------------------------------------ fetchArticleScore on its own *)
\* one task calls fetchArticleScore(A1.comments) with the default retryCount = 0
InitScore ==
    /\ store = NoEntry
    /\ pc = [t \in Tasks |-> IF t = "t1" THEN "score" ELSE "idle"]
    /\ kind = [t \in Tasks |-> IF t = "t1" THEN "score" ELSE ""]
    /\ req = [t \in Tasks |-> NoReq]
    /\ parsed = [t \in Tasks |-> IF t = "t1" THEN <<A1>> ELSE <<>>]
    /\ scored = [t \in Tasks |-> <<>>]
    /\ retryCount = [t \in Tasks |-> 0]
    /\ call = [t \in Tasks |-> NoCall]
    /\ ret = [t \in Tasks |-> Num(0)]
    /\ doc = [t \in Tasks |-> NoDoc]
    /\ resp = [t \in Tasks |-> NoResp]
    /\ warmed = [t \in Tasks |-> ""]
    /\ ops = [t \in Tasks |-> NoOps]
    /\ ref = NoRef
    /\ cleared = 0

NextScore == \E o \in Outcomes : ScoreRespond("t1", o)

SpecScore == InitScore /\ [][NextScore]_vars

(* ------------------------------------------- the pipeline on its own *)
\* the most items the upstream feed carries
MaxItems == 3

PipelineFeeds == UNION { [1..n -> {A0, A1, A2}] : n \in 0..MaxItems }

\* the answers the score endpoint gives to a bare pipeline run
PipelineOutcomes ==
    {NetworkError, ThrottledBody, JsonBody(JsonInt(minimumScore)), JsonBody(JsonInt(15))}

\* one task runs fetchAllArticles() and writeArticlesFeed on what it returns
InitPipeline ==
    /\ store = NoEntry
    /\ pc = [t \in Tasks |-> IF t = "t1" THEN "feed" ELSE "idle"]
    /\ kind = [t \in Tasks |-> IF t = "t1" THEN "pipeline" ELSE ""]
    /\ req = [t \in Tasks |-> NoReq]
    /\ parsed = [t \in Tasks |-> <<>>]
    /\ scored = [t \in Tasks |-> <<>>]
    /\ retryCount = [t \in Tasks |-> 0]
    /\ call = [t \in Tasks |-> NoCall]
    /\ ret = [t \in Tasks |-> Num(0)]
    /\ doc = [t \in Tasks |-> NoDoc]
    /\ resp = [t \in Tasks |-> NoResp]
    /\ warmed = [t \in Tasks |-> ""]
    /\ ops = [t \in Tasks |-> NoOps]
    /\ ref = NoRef
    /\ cleared = 0

NextPipeline ==
    \/ FeedFail("t1")
    \/ \E items \in PipelineFeeds : FeedRespond("t1", items)
    \/ \E o \in PipelineOutcomes : ScoreRespond("t1", o)
    \/ ScoreReturn("t1")

SpecPipeline == InitPipeline /\ [][NextPipeline]_vars

(* ------------------------------------------- writeArticlesFeed on its own *)
\* the longest list handed to writeArticlesFeed
MaxArticles == 3

\* scored articles: timestamps that differ, that tie and that are NaN, scores at
\* minimumScore, above it and NaN
WriteArticles ==
    { Scored(a, sc) : a \in {A1, A2, A3, A4}, sc \in {Num(minimumScore), Num(15), NaN} }

WriteLists == UNION { [1..n -> WriteArticles] : n \in 0..MaxArticles }

\* one task calls writeArticlesFeed(articles) with a list of scored articles
InitWrite ==
    /\ store = NoEntry
    /\ pc = [t \in Tasks |-> IF t = "t1" THEN "write" ELSE "idle"]
    /\ kind = [t \in Tasks |-> IF t = "t1" THEN "write" ELSE ""]
    /\ req = [t \in Tasks |-> NoReq]
    /\ parsed = [t \in Tasks |-> <<>>]
    /\ \E articles \in WriteLists :
          scored = [t \in Tasks |-> IF t = "t1" THEN articles ELSE <<>>]
    /\ retryCount = [t \in Tasks |-> 0]
    /\ call = [t \in Tasks |-> NoCall]
    /\ ret = [t \in Tasks |-> Num(0)]
    /\ doc = [t \in Tasks |-> NoDoc]
    /\ resp = [t \in Tasks |-> NoResp]
    /\ warmed = [t \in Tasks |-> ""]
    /\ ops = [t \in Tasks |-> NoOps]
    /\ ref = NoRef
    /\ cleared = 0

\* writeArticlesFeed(articles) returns
WriteFeed(t) ==
    /\ pc[t] = "write"
    /\ pc' = [pc EXCEPT ![t] = "written"]
    /\ \E d \in WriteArticlesFeed(scored[t]) : doc' = [doc EXCEPT ![t] = <<d>>]
    /\ UNCHANGED <<store, kind, req, parsed, scored, retryCount, call, ret, resp, warmed, ops,
                   ref, cleared>>

NextWrite == WriteFeed("t1")

SpecWrite == InitWrite /\ [][NextWrite]_vars

(* ------------------------------------------------------------ properties *)
Returned(t) == pc[t] = "scoreRet"
Answered(t) == kind[t] = "fetch" /\ pc[t] = "done"
Warmed(t) == kind[t] = "scheduled" /\ pc[t] = "done"
BypassFlag(t) == req[t].query = "force_refresh" \/ req[t].query = "clear_cache"
FreshEntry(body) == <<[body |-> body, ttl |-> cacheMaxAge, age |-> 0]>>

\* C1: a request to / without a bypass flag that finds an entry in the store is answered
\* with the stored document and X-Cache: HIT, running no pipeline and putting nothing; any
\* other request to / (no entry, or a bypass flag, and then the store is never read) runs
\* the pipeline once, puts its document with ttl cacheMaxAge and serves that document with
\* X-Cache: MISS. (Requests whose store operation fails are the subject of C5 and C6.)
C1_HitOrRegenerate ==
    \A t \in Tasks :
        /\ (kind[t] = "fetch" /\ BypassFlag(t)) => ops[t].reads = 0
        /\ (Answered(t) /\ req[t].path = "/" /\ ~ops[t].storeFail) =>
              IF ~BypassFlag(t) /\ ops[t].found = "live"
              THEN /\ resp[t] = RssResponse(ops[t].seen[1], "HIT")
                   /\ ops[t].reads = 1
                   /\ ops[t].runs = 0
                   /\ ops[t].writes = 0
              ELSE /\ ops[t].reads = (IF BypassFlag(t) THEN 0 ELSE 1)
                   /\ ops[t].runs = 1
                   /\ ops[t].writes = 1
                   /\ resp[t] = RssResponse(doc[t][1], "MISS")
                   /\ ops[t].wrote = FreshEntry(doc[t][1])

C1_Witness ==
    \E t, u \in Tasks :
        /\ Answered(t) /\ req[t].path = "/" /\ resp[t].xcache = "HIT"
        /\ Answered(u) /\ req[u].path = "/" /\ BypassFlag(u) /\ resp[u].xcache = "MISS"
        /\ ops[u].over = "live"

\* C2 as stated: a request to / without a bypass flag, made after a miss completed, within
\* the TTL and with no clear, scheduled run or bypass request in between, is answered
\* with X-Cache: HIT and the body that miss returned, and writes nothing.
C2_HitAfterMiss ==
    \A t \in Tasks :
        (Answered(t) /\ req[t].afterRef /\ ref # NoRef /\ ~ops[t].storeFail) =>
            /\ resp[t] = RssResponse(ref[1].body, "HIT")
            /\ ops[t].writes = 0
            /\ ops[t].dels = 0

\* C2 amended: the same, provided also that no other request that missed put its document
\* in between.
C2_HitAfterUndisturbedMiss ==
    \A t \in Tasks :
        (Answered(t) /\ req[t].afterRef /\ ref # NoRef /\ ~ref[1].disturbed
            /\ ~ops[t].storeFail) =>
            /\ resp[t] = RssResponse(ref[1].body, "HIT")
            /\ ops[t].writes = 0
            /\ ops[t].dels = 0

C2_Witness ==
    \E t \in Tasks :
        /\ Answered(t) /\ req[t].afterRef /\ ref # NoRef /\ ~ref[1].disturbed
        /\ ref[1].age > 0
        /\ resp[t] = RssResponse(ref[1].body, "HIT")

\* C3: a scheduled run never reads the store; when it completes it has run the pipeline
\* once and the store holds its fresh document with ttl cacheMaxAge, whatever was stored.
C3_WarmOverwrites ==
    \A t \in Tasks :
        /\ kind[t] = "scheduled" => ops[t].reads = 0
        /\ (Warmed(t) /\ warmed[t] = "true") =>
              /\ ops[t].runs = 1
              /\ ops[t].writes = 1
              /\ ops[t].wrote = FreshEntry(doc[t][1])

C3_Witness ==
    \E t \in Tasks : Warmed(t) /\ warmed[t] = "true" /\ ops[t].over = "live"

\* C4: when a scheduled run whose feed GET or store put failed returns, it has run the
\* pipeline once, nothing was raised, and the store still holds the document of the live
\* entry it held before.
C4_FailedWarmKeepsEntry ==
    [][\A t \in Tasks :
          (/\ kind[t] = "scheduled" /\ pc[t] = "put" /\ pc'[t] = "done"
           /\ (ops'[t].feedFail \/ ops'[t].storeFail)
           /\ EntryState(store) = "live") =>
              /\ store' # NoEntry
              /\ store'[1].body = store[1].body
              /\ ops'[t].runs = 1
              /\ ~resp'[t].raised]_vars

\* C5: a request to / whose pipeline or store operation failed is answered with the
\* generic 500 and has stored nothing.
C5_FailedRequestStoresNothing ==
    \A t \in Tasks :
        (Answered(t) /\ req[t].path = "/" /\ (ops[t].feedFail \/ ops[t].storeFail)) =>
            /\ resp[t] = ErrorResponse
            /\ ops[t].wrote = NoEntry

\* C6: a request whose store get, put or delete failed is answered with the generic 500,
\* and the failure does not leave the handler as an exception.
C6_StoreFailureIs500 ==
    \A t \in Tasks :
        (Answered(t) /\ ops[t].storeFail) => (resp[t] = ErrorResponse /\ ~resp[t].raised)

\* C7: a clear whose delete succeeds answers 200 whether or not an entry existed and
\* leaves the store empty; until the next put the store stays empty through any further
\* clear, and a request to / without a bypass flag that reads it then is a MISS.
C7_ClearIdempotent ==
    /\ cleared > 0 => store = NoEntry
    /\ \A t \in Tasks :
          /\ (Answered(t) /\ req[t].path = "/clear-cache" /\ ~ops[t].storeFail) =>
                /\ resp[t] = ClearedResponse
                /\ ops[t].dels = 1
                /\ ops[t].reads = 0
                /\ ops[t].writes = 0
          /\ (Answered(t) /\ req[t].path = "/" /\ ops[t].readCleared > 0
                /\ ~ops[t].storeFail) => resp[t].xcache = "MISS"

C7_Witness ==
    \E t \in Tasks :
        /\ Answered(t) /\ req[t].path = "/" /\ ~BypassFlag(t)
        /\ ops[t].readCleared = 2
        /\ resp[t].xcache = "MISS"

RECURSIVE SumBackoff(_)
SumBackoff(k) == IF k = 0 THEN 0 ELSE SumBackoff(k - 1) + retryDelay * (2 ^ (k - 1))

AllThrottled(h) == \A i \in 1..Len(h) : h[i].kind = "throttled"
\* k < maxRetries throttled answers, then a JSON body with an integer score
ThrottledThenScore(h) ==
    /\ h # <<>>
    /\ Len(h) - 1 < maxRetries
    /\ AllThrottled(SubSeq(h, 1, Len(h) - 1))
    /\ h[Len(h)].kind = "json"
    /\ h[Len(h)].score.t = "int"

\* C8: when the endpoint answers k < maxRetries times with a throttle marker and then with
\* a JSON body of score v, fetchArticleScore returns v after exactly k + 1 fetches, having
\* slept retryDelay * 2^0 + ... + retryDelay * 2^(k-1) in total.
C8_ThrottledThenScore ==
    \A t \in Tasks :
        ThrottledThenScore(call[t].hist) =>
            LET h == call[t].hist
                k == Len(h) - 1
            IN /\ Returned(t)
               /\ ret[t] = Num(h[Len(h)].score.n)
               /\ call[t].fetches = k + 1
               /\ call[t].slept = SumBackoff(k)

C8_Witness ==
    \E t \in Tasks :
        /\ Returned(t)
        /\ call[t].hist = <<ThrottledBody, ThrottledBody, JsonBody(JsonInt(15))>>
        /\ ret[t] = Num(15)

\* C9 as stated: when every answer carries a throttle marker, fetchArticleScore returns 0
\* after exactly maxRetries fetches.
C9_ExhaustedAfterMaxRetries ==
    \A t \in Tasks :
        (Returned(t) /\ AllThrottled(call[t].hist)) =>
            (ret[t] = Num(0) /\ call[t].fetches = maxRetries)

\* C9 amended: when every answer carries a throttle marker, fetchArticleScore returns 0
\* after exactly maxRetries + 1 fetches: the first one and maxRetries retries.
C9_ExhaustedAfterMaxRetriesPlusOne ==
    \A t \in Tasks :
        /\ (Returned(t) /\ AllThrottled(call[t].hist)) =>
              (ret[t] = Num(0) /\ call[t].fetches = maxRetries + 1)
        /\ (pc[t] = "score" /\ AllThrottled(call[t].hist)) => call[t].fetches <= maxRetries

C9_Witness ==
    \E t \in Tasks : Returned(t) /\ AllThrottled(call[t].hist) /\ ret[t] = Num(0)

\* the answers after which the call cannot produce a score
Irrecoverable(o) == o.kind \in {"neterr", "throttled", "badjson", "jsonnull"}

\* C10: whatever the endpoint answers, the value fetchArticleScore returns is an integer,
\* and it is 0 when the last answer was a failure.
C10_ReturnsInteger ==
    \A t \in Tasks :
        Returned(t) =>
            /\ IsInteger(ret[t])
            /\ Irrecoverable(call[t].hist[Len(call[t].hist)]) => ret[t] = Num(0)

Last(h) == h[Len(h)]

\* C16: a fetchArticleScore call never makes more than maxRetries retries, whatever mix of
\* throttled, non-JSON and failing answers it gets: one retryCount counts them all, the
\* fetch made at retryCount = maxRetries always returns, and the backoff slept in total
\* never exceeds retryDelay * 2^0 + ... + retryDelay * 2^(maxRetries-1).
C16_BoundedRetries ==
    \A t \in Tasks :
        /\ retryCount[t] <= maxRetries
        /\ call[t].fetches <= maxRetries + 1
        /\ call[t].slept <= SumBackoff(maxRetries)
        /\ pc[t] = "score" => (call[t].fetches = retryCount[t] /\ call[t].fetches <= maxRetries)
        /\ Returned(t) => call[t].fetches = retryCount[t] + 1

C16_Witness ==
    \E t \in Tasks :
        /\ Returned(t)
        /\ call[t].fetches = maxRetries + 1
        /\ call[t].slept = SumBackoff(maxRetries)
        /\ \E i, j \in 1..maxRetries :
              call[t].hist[i].kind = "throttled" /\ call[t].hist[j].kind = "badjson"

\* C17: a body that is not valid JSON is handled like a throttled one: at attempt
\* a < maxRetries the call sleeps retryDelay * 2^a and fetches again with attempt a + 1,
\* and at attempt maxRetries it returns 0.
C17_ParseErrorRetriesLikeThrottle ==
    \A t \in Tasks :
        (call[t].hist # <<>> /\ Last(call[t].hist).kind = "badjson") =>
            LET n == Len(call[t].hist)
            IN IF n - 1 < maxRetries
               THEN /\ pc[t] = "score"
                    /\ retryCount[t] = n
                    /\ call[t].slept = SumBackoff(n)
               ELSE /\ Returned(t)
                    /\ ret[t] = Num(0)

\* C18: an answer that fails otherwise than by a throttle marker or a JSON parse error (a
\* network error, a TypeError on a null body) makes the call return 0 at once, at whatever
\* attempt: nothing is slept for it and no fetch follows it.
C18_OtherFailureReturnsZero ==
    \A t \in Tasks :
        (call[t].hist # <<>> /\ Last(call[t].hist).kind \in {"neterr", "jsonnull"}) =>
            /\ Returned(t)
            /\ ret[t] = Num(0)
            /\ retryCount[t] = Len(call[t].hist) - 1
            /\ call[t].slept = SumBackoff(Len(call[t].hist) - 1)

C18_Witness ==
    \E t \in Tasks :
        /\ Returned(t)
        /\ call[t].hist = <<ThrottledBody, BadJson(TRUE), NetworkError>>
        /\ ret[t] = Num(0)
        /\ call[t].slept = retryDelay + 2 * retryDelay

Written(t) == kind[t] = "write" /\ pc[t] = "written"
Count(a, articles) == Cardinality({ i \in 1..Len(articles) : articles[i] = a })
Emitted(a) == ~a.score.nan /\ a.score.v > minimumScore
Older(a, b) == ~a.timestamp.nan /\ ~b.timestamp.nan /\ a.timestamp.v < b.timestamp.v
WithTimestamp(articles, ts) ==
    LET Test(a) == Emitted(a) /\ a.timestamp = ts IN SelectSeq(articles, Test)

\* C11: the items writeArticlesFeed emits are exactly the articles given to it whose score
\* is strictly above minimumScore, each once; no item stands before one with a greater
\* timestamp; and items of equal timestamp stand in the order they were given in.
C11_FilteredSortedStable ==
    \A t \in Tasks :
        Written(t) =>
            LET items == doc[t][1].items
            IN /\ \A a \in WriteArticles :
                     Count(a, items) = IF Emitted(a) THEN Count(a, scored[t]) ELSE 0
               /\ \A i, j \in 1..Len(items) : i < j => ~Older(items[i], items[j])
               /\ \A a \in WriteArticles :
                     WithTimestamp(items, a.timestamp) = WithTimestamp(scored[t], a.timestamp)

Rendered(t) == kind[t] = "pipeline" /\ pc[t] = "rendered"
HasComments(a) == a.comments # ""
CallsFor(log, guid) == { k \in 1..Len(log) : log[k].e = "call" /\ log[k].guid = guid }

\* C12: in a pipeline run no fetchArticleScore call is made for a feed item whose comments
\* field is empty, no such item is among the articles scored or in the document, and a
\* feed all of whose items lack comments renders a document with zero items.
C12_NoCommentsDropped ==
    \A t \in Tasks :
        kind[t] = "pipeline" =>
            LET items == ops[t].items
            IN /\ \A i \in 1..Len(items) :
                     ~HasComments(items[i]) => CallsFor(ops[t].log, items[i].guid) = {}
               /\ \A i \in 1..Len(parsed[t]) : HasComments(parsed[t][i])
               /\ \A i \in 1..Len(scored[t]) : HasComments(scored[t][i])
               /\ Rendered(t) =>
                     /\ \A i \in 1..Len(doc[t][1].items) : HasComments(doc[t][1].items[i])
                     /\ (\A i \in 1..Len(items) : ~HasComments(items[i])) =>
                           (doc[t][1].items = <<>> /\ ops[t].log = <<>>)

C12_Witness ==
    \E t \in Tasks :
        /\ Rendered(t)
        /\ ops[t].items = <<A0, A1>>
        /\ CallsFor(ops[t].log, A1.guid) # {}
        /\ doc[t][1].items = <<Scored(A1, Num(15))>>

\* C13: when the GET of the upstream feed fails, the run returns an empty list with no
\* fetchArticleScore call made, nothing is raised, and the document is rendered with
\* zero items.
C13_FeedFailureRendersEmpty ==
    \A t \in Tasks :
        (kind[t] = "pipeline" /\ ops[t].feedFail) =>
            /\ pc[t] = "rendered"
            /\ scored[t] = <<>>
            /\ ops[t].log = <<>>
            /\ call[t] = NoCall
            /\ doc[t] = <<[items |-> <<>>]>>
            /\ ~resp[t].raised

C13_Witness == \E t \in Tasks : Rendered(t) /\ ops[t].feedFail /\ doc[t] # NoDoc

\* C14: in a pipeline run over n articles the log reads call 1, return 1, sleep, call 2,
\* return 2, sleep, ..., call n, return n: each call is for the next article in feed
\* order, starts only after the one before returned and one rateLimitDelay sleep passed,
\* and the run sleeps max(n - 1, 0) times, never after the last article.
C14_SequentialScoring ==
    \A t \in Tasks :
        kind[t] = "pipeline" =>
            LET log == ops[t].log
                n == Len(parsed[t])
            IN /\ \A k \in 1..Len(log) :
                     LET i == (k + 2) \div 3
                     IN /\ i <= n
                        /\ k % 3 = 1 => log[k] = CallEvent(parsed[t][i])
                        /\ k % 3 = 2 => (log[k].e = "ret" /\ log[k].guid = parsed[t][i].guid)
                        /\ k % 3 = 0 => log[k] = SleepEvent
               /\ pc[t] \in {"score", "scoreRet"} => Len(log) = 3 * Len(scored[t]) + 1
               /\ ops[t].rateSleeps = Cardinality({ k \in 1..Len(log) : log[k] = SleepEvent })
               /\ Rendered(t) =>
                     /\ Len(log) = IF n = 0 THEN 0 ELSE 3 * n - 1
                     /\ ops[t].rateSleeps = IF n = 0 THEN 0 ELSE n - 1

C14_Witness ==
    \E t \in Tasks :
        /\ Rendered(t)
        /\ parsed[t] = <<A1, A2, A1>>
        /\ ops[t].rateSleeps = 2
        /\ ops[t].log[Len(ops[t].log)].e = "ret"

\* C19: a pipeline run whose feed GET succeeded returns one scored article for every feed
\* item with comments, in feed order, whatever the score fetches answered: an article
\* whose call ended on a failing answer carries score 0, and every article got its call.
C19_ScoreFailureNeverAborts ==
    \A t \in Tasks :
        (Rendered(t) /\ ~ops[t].feedFail) =>
            LET log == ops[t].log
                n == Cardinality({ i \in 1..Len(ops[t].items) : HasComments(ops[t].items[i]) })
            IN /\ Len(scored[t]) = n
               /\ parsed[t] = SelectSeq(ops[t].items, HasComments)
               /\ \A i \in 1..n :
                     /\ scored[t][i].guid = parsed[t][i].guid
                     /\ scored[t][i].timestamp = parsed[t][i].timestamp
                     /\ log[3 * i - 2] = CallEvent(parsed[t][i])
                     /\ Irrecoverable([kind |-> log[3 * i - 1].last]) =>
                           scored[t][i].score = Num(0)

C19_Witness ==
    \E t \in Tasks :
        /\ Rendered(t)
        /\ ops[t].items = <<A1, A0, A2>>
        /\ ops[t].log[2] = RetEvent(A1, NetworkError)
        /\ scored[t] = <<Scored(A1, Num(0)), Scored(A2, Num(15))>>

\* C15: a request to /index.xml is answered 302 with Location the request's own protocol,
\* "//", its host and "/", whatever its query flag and whatever the store holds, and the
\* handler has then read, written and deleted nothing and run no pipeline.
C15_IndexXmlRedirects ==
    \A t \in Tasks :
        (kind[t] = "fetch" /\ req[t].path = "/index.xml") =>
            /\ pc[t] = "done"
            /\ resp[t].status = 302
            /\ ~resp[t].raised
            /\ resp[t].location = <<req[t].origin.protocol, "//", req[t].origin.host, "/">>
            /\ ops[t] = NoOps
            /\ doc[t] = NoDoc

C15_Witness ==
    \E t \in Tasks :
        /\ Answered(t)
        /\ req[t].path = "/index.xml"
        /\ req[t].query = "force_refresh"
        /\ req[t].origin.protocol = "https:"
        /\ EntryState(store) = "live"
        /\ resp[t].status = 302

Missed(t) == Answered(t) /\ req[t].path = "/" /\ resp[t].xcache = "MISS"
PutStep(t) == pc[t] = "put" /\ pc'[t] = "done" /\ ~ops'[t].storeFail

\* C20: no task waits for another and no run is shared: a task at its put can always
\* take it, whatever the other task is doing; a request answered MISS has run its own
\* pipeline once and put its own document; every put that succeeds leaves the store
\* holding exactly that task's whole document, whatever was stored before; and the stored
\* value only ever changes by such a put, by a delete that empties it, or by ageing.
C20_NoSingleFlight ==
    [][ /\ \A t \in Tasks : pc[t] = "put" => ENABLED Put(t, TRUE)
        /\ \A t \in Tasks :
              Missed(t) => /\ ops[t].runs = 1
                           /\ ops[t].writes = 1
                           /\ ops[t].wrote = FreshEntry(resp[t].body[1])
        /\ \A t \in Tasks : PutStep(t) => store' = FreshEntry(doc[t][1])
        /\ store' # store =>
              \/ \E t \in Tasks : PutStep(t)
              \/ store' = NoEntry /\ \E t \in Tasks : pc[t] = "delete" /\ pc'[t] = "done"
              \/ store # NoEntry /\ store' # NoEntry /\ store'[1].body = store[1].body
      ]_vars

C20_Witness ==
    \E t, u \in Tasks :
        /\ t # u
        /\ Missed(t) /\ Missed(u)
        /\ ~BypassFlag(t) /\ ~BypassFlag(u)
        /\ ops[t].found = "absent" /\ ops[u].found = "absent"
        /\ doc[t] # doc[u]
        /\ ops[u].over = "live"
        /\ store = FreshEntry(doc[u][1])
        /\ ops[t].wrote # store

====
